---- MODULE Spec2Model ----
(***************************************************************************)
(* ketchup: discovery-driven collection of Kubernetes resources.           *)
(* The model follows src/ketchup/src/{main,k8s,output}.rs: the inclusion   *)
(* policy (should_collect_resource), the sanitizer, the two collection     *)
(* passes, the persistence stage and the orchestration in main.            *)
(***************************************************************************)
EXTENDS Integers, Sequences, FiniteSets, TLC

\* ------------------------------------------------------------------ bounds
\* most instances one list call returns
MaxItems == 3
\* longest --crds allow-list
MaxCrds == 1

\* the longest --namespaces list verify_namespaces is given
MaxRequested == 3

\* the highest count a save reports for one kind
MaxCount == 2

\* how far the clock moves while the summary is computed again
MaxClock == 2

\* ------------------------------------------------------------------ strings
\* Kind names are strings; Chars gives the characters of each name the model
\* uses, so that str::contains, eq_ignore_ascii_case and to_lowercase are
\* computed character by character as the standard library does.
KindNames ==
    { "ComponentStatus", "Binding", "Secret", "Event", "ReplicaSet", "Endpoints",
      "EndpointSlice", "Lease", "Pod", "Namespace", "secret", "Widget",
      "widgets.example.com", "WIDGETS.Example.com", "gadgets.example.com",
      "v1.Secret" }

Chars(name) ==
    CASE name = "ComponentStatus" ->
           <<"C","o","m","p","o","n","e","n","t","S","t","a","t","u","s">>
      [] name = "Binding" ->
           <<"B","i","n","d","i","n","g">>
      [] name = "Secret" ->
           <<"S","e","c","r","e","t">>
      [] name = "Event" ->
           <<"E","v","e","n","t">>
      [] name = "ReplicaSet" ->
           <<"R","e","p","l","i","c","a","S","e","t">>
      [] name = "Endpoints" ->
           <<"E","n","d","p","o","i","n","t","s">>
      [] name = "EndpointSlice" ->
           <<"E","n","d","p","o","i","n","t","S","l","i","c","e">>
      [] name = "Lease" ->
           <<"L","e","a","s","e">>
      [] name = "Pod" ->
           <<"P","o","d">>
      [] name = "Namespace" ->
           <<"N","a","m","e","s","p","a","c","e">>
      [] name = "secret" ->
           <<"s","e","c","r","e","t">>
      [] name = "Widget" ->
           <<"W","i","d","g","e","t">>
      [] name = "widgets.example.com" ->
           <<"w","i","d","g","e","t","s",".","e","x","a","m","p","l","e",".","c","o","m">>
      [] name = "WIDGETS.Example.com" ->
           <<"W","I","D","G","E","T","S",".","E","x","a","m","p","l","e",".","c","o","m">>
      [] name = "gadgets.example.com" ->
           <<"g","a","d","g","e","t","s",".","e","x","a","m","p","l","e",".","c","o","m">>
      [] name = "v1.Secret" ->
           <<"v","1",".","S","e","c","r","e","t">>

UpperAscii ==
    <<"A","B","C","D","E","F","G","H","I","J","K","L","M","N","O","P","Q","R","S","T","U","V","W","X","Y","Z">>

LowerAscii ==
    <<"a","b","c","d","e","f","g","h","i","j","k","l","m","n","o","p","q","r","s","t","u","v","w","x","y","z">>

\* u8::to_ascii_lowercase: 'A'..'Z' map to 'a'..'z', every other byte to itself
to_ascii_lowercase(c) ==
    IF \E i \in 1..26 : UpperAscii[i] = c
    THEN LowerAscii[CHOOSE i \in 1..26 : UpperAscii[i] = c]
    ELSE c

\* str::eq_ignore_ascii_case: same length and bytewise equal after ASCII folding
eq_ignore_ascii_case(a, b) ==
    /\ Len(Chars(a)) = Len(Chars(b))
    /\ \A i \in 1..Len(Chars(a)) :
          to_ascii_lowercase(Chars(a)[i]) = to_ascii_lowercase(Chars(b)[i])

\* str::contains(char)
contains(name, c) == \E i \in 1..Len(Chars(name)) : Chars(name)[i] = c

\* ------------------------------------------------------------------ options
\* Option<Vec<String>>: None, or Some(list)
None == [some |-> FALSE, list |-> <<>>]

Some(l) == [some |-> TRUE, list |-> l]

\* the entries a --crds allow-list is built from
CrdEntries == { "widgets.example.com", "WIDGETS.Example.com", "Pod" }

SeqsUpTo(S, n) == UNION { [1..k -> S] : k \in 0..n }

CrdLists == { None } \cup { Some(l) : l \in SeqsUpTo(CrdEntries, MaxCrds) }

Toggles ==
    { "include_secrets", "include_custom_resources", "include_events",
      "include_replicasets", "include_endpoints", "include_leases", "sanitize" }

CollectionOptions ==
    [ include_secrets : BOOLEAN, include_custom_resources : BOOLEAN,
      include_events : BOOLEAN, include_replicasets : BOOLEAN,
      include_endpoints : BOOLEAN, include_leases : BOOLEAN,
      specific_crds : CrdLists, sanitize : BOOLEAN ]

\* ------------------------------------------------------------------ policy
\* Variants of the policy, each with one slip, that the claims about it must
\* tell from should_collect_resource.
in_allow_list(kind, o) ==
    \E i \in 1..Len(o.specific_crds.list) :
        eq_ignore_ascii_case(kind, o.specific_crds.list[i])

fallthrough_arm(kind, o) ==
    IF contains(kind, ".")
    THEN IF o.specific_crds.some THEN in_allow_list(kind, o)
         ELSE o.include_custom_resources
    ELSE TRUE

\* the blanket toggle is read before the allow-list
should_collect_blanket_first(kind, o) ==
    CASE kind \in { "ComponentStatus", "Binding" } -> FALSE
      [] kind = "Secret" -> o.include_secrets
      [] kind = "Event" -> o.include_events
      [] kind = "ReplicaSet" -> o.include_replicasets
      [] kind \in { "Endpoints", "EndpointSlice" } -> o.include_endpoints
      [] kind = "Lease" -> o.include_leases
      [] OTHER ->
           IF contains(kind, ".")
           THEN IF o.include_custom_resources THEN TRUE
                ELSE o.specific_crds.some /\ in_allow_list(kind, o)
           ELSE TRUE

\* raw mode lets secrets through
should_collect_secret_raw(kind, o) ==
    CASE kind \in { "ComponentStatus", "Binding" } -> FALSE
      [] kind = "Secret" -> o.include_secrets \/ ~o.sanitize
      [] kind = "Event" -> o.include_events
      [] kind = "ReplicaSet" -> o.include_replicasets
      [] kind \in { "Endpoints", "EndpointSlice" } -> o.include_endpoints
      [] kind = "Lease" -> o.include_leases
      [] OTHER -> fallthrough_arm(kind, o)

\* the Secret arm is missing: Secret is a standard kind
should_collect_no_secret_arm(kind, o) ==
    CASE kind \in { "ComponentStatus", "Binding" } -> FALSE
      [] kind = "Event" -> o.include_events
      [] kind = "ReplicaSet" -> o.include_replicasets
      [] kind \in { "Endpoints", "EndpointSlice" } -> o.include_endpoints
      [] kind = "Lease" -> o.include_leases
      [] OTHER -> fallthrough_arm(kind, o)

\* Binding is missing from the denylist
should_collect_binding(kind, o) ==
    CASE kind = "ComponentStatus" -> FALSE
      [] kind = "Secret" -> o.include_secrets
      [] kind = "Event" -> o.include_events
      [] kind = "ReplicaSet" -> o.include_replicasets
      [] kind \in { "Endpoints", "EndpointSlice" } -> o.include_endpoints
      [] kind = "Lease" -> o.include_leases
      [] OTHER -> fallthrough_arm(kind, o)

\* EndpointSlice is missing from the endpoints arm
should_collect_endpoints_only(kind, o) ==
    CASE kind \in { "ComponentStatus", "Binding" } -> FALSE
      [] kind = "Secret" -> o.include_secrets
      [] kind = "Event" -> o.include_events
      [] kind = "ReplicaSet" -> o.include_replicasets
      [] kind = "Endpoints" -> o.include_endpoints
      [] kind = "Lease" -> o.include_leases
      [] OTHER -> fallthrough_arm(kind, o)

\* the exact names are matched ignoring ASCII case
should_collect_any_case(kind, o) ==
    CASE eq_ignore_ascii_case(kind, "ComponentStatus")
         \/ eq_ignore_ascii_case(kind, "Binding") -> FALSE
      [] eq_ignore_ascii_case(kind, "Secret") -> o.include_secrets
      [] eq_ignore_ascii_case(kind, "Event") -> o.include_events
      [] eq_ignore_ascii_case(kind, "ReplicaSet") -> o.include_replicasets
      [] eq_ignore_ascii_case(kind, "Endpoints")
         \/ eq_ignore_ascii_case(kind, "EndpointSlice") -> o.include_endpoints
      [] eq_ignore_ascii_case(kind, "Lease") -> o.include_leases
      [] OTHER -> fallthrough_arm(kind, o)

\* fn should_collect_resource(&self, kind: &str, opts: &CollectionOptions) -> bool
should_collect_resource(kind, o) ==
    CASE kind \in { "ComponentStatus", "Binding" } -> FALSE
      [] kind = "Secret" -> o.include_secrets
      [] kind = "Event" -> o.include_events
      [] kind = "ReplicaSet" -> o.include_replicasets
      [] kind \in { "Endpoints", "EndpointSlice" } -> o.include_endpoints
      [] kind = "Lease" -> o.include_leases
      [] OTHER ->
           IF contains(kind, ".")
           THEN IF o.specific_crds.some
                THEN \E i \in 1..Len(o.specific_crds.list) :
                        eq_ignore_ascii_case(kind, o.specific_crds.list[i])
                ELSE o.include_custom_resources
           ELSE TRUE

\* ------------------------------------------------------------------ documents
\* serde_json::Value, tagged: an object holds a mapping from keys to values
Obj(f) == [tag |-> "object", fields |-> f]

Str(s) == [tag |-> "string", val |-> s]

is_object(v) == v.tag = "object"

EmptyFields == [k \in {} |-> Str("")]

has_key(v, k) == is_object(v) /\ k \in DOMAIN v.fields

\* Map::remove on every key of ks
remove(f, ks) == [k \in (DOMAIN f) \ ks |-> f[k]]

MetadataNoise ==
    { "uid", "resourceVersion", "selfLink", "creationTimestamp", "generation",
      "managedFields" }

\* a sanitizer that reaches status only through a metadata mapping
sanitize_status_inside(value) ==
    IF is_object(value) /\ has_key(value, "metadata")
       /\ is_object(value.fields["metadata"])
    THEN Obj(remove([value.fields EXCEPT
                        !["metadata"] = Obj(remove(@.fields, MetadataNoise))],
                    { "status" }))
    ELSE value

\* a sanitizer that gives every mapping a metadata entry
sanitize_default_metadata(value) ==
    IF is_object(value)
    THEN LET obj == value.fields
             meta == IF "metadata" \in DOMAIN obj /\ is_object(obj["metadata"])
                     THEN Obj(remove(obj["metadata"].fields, MetadataNoise))
                     ELSE Obj(EmptyFields)
         IN  Obj(remove([k \in (DOMAIN obj) \cup { "metadata" } |->
                            IF k = "metadata" THEN meta ELSE obj[k]],
                        { "status" }))
    ELSE value

sanitize_resource(value) ==
    IF is_object(value)
    THEN LET obj == value.fields
             stripped ==
                 IF "metadata" \in DOMAIN obj /\ is_object(obj["metadata"])
                 THEN [obj EXCEPT !["metadata"] =
                          Obj(remove(@.fields,
                                     { "uid", "resourceVersion", "selfLink",
                                       "creationTimestamp", "generation",
                                       "managedFields" }))]
                 ELSE obj
         IN  Obj(remove(stripped, { "status" }))
    ELSE value

\* ------------------------------------------------------------------ platform
\* what discovery reports of one resource type: ApiResource and its scope
Descriptor(kind, api_version, scope) ==
    [kind |-> kind, api_version |-> api_version, scope |-> scope]

\* the platform's resource set, in the order groups() and
\* recommended_resources() yield it; Event is served by two API groups
BaseCatalog ==
    << Descriptor("Namespace", "v1", "Cluster"),
       Descriptor("ComponentStatus", "v1", "Cluster"),
       Descriptor("Pod", "v1", "Namespaced"),
       Descriptor("Secret", "v1", "Namespaced"),
       Descriptor("Event", "v1", "Namespaced"),
       Descriptor("Event", "events.k8s.io/v1", "Namespaced"),
       Descriptor("widgets.example.com", "example.com/v1", "Cluster") >>

\* a CRD installed while the run is under way
InstalledCrd == Descriptor("gadgets.example.com", "example.com/v1", "Namespaced")

\* the namespaces the platform holds
AvailableNamespaces == << "default", "ns-a" >>

ItemNames == << "a", "b", "c", "d" >>

\* ObjectMeta.name is an Option: the instance at this position has none
Unnamed == 2

\* the i-th live instance of a resource type, as DynamicObject serializes it
Instance(ar, namespace, i) ==
    LET meta == [k \in (IF i = Unnamed THEN {} ELSE { "name" })
                        \cup { "uid", "resourceVersion" }
                        \cup (IF namespace.some THEN { "namespace" } ELSE {}) |->
                    CASE k = "name" -> Str(ItemNames[i])
                      [] k = "uid" -> Str("uid")
                      [] k = "resourceVersion" -> Str("1")
                      [] k = "namespace" -> Str(namespace.val)]
    IN  Obj([apiVersion |-> Str(ar.api_version), kind |-> Str(ar.kind),
             metadata |-> Obj(meta), spec |-> Str("spec"),
             status |-> Str("status")])

NoNamespace == [some |-> FALSE, val |-> ""]

InNamespace(ns) == [some |-> TRUE, val |-> ns]

\* Result<Vec<_>>
Ok(v) == [ok |-> TRUE, val |-> v]

Err == [ok |-> FALSE, val |-> <<>>]

\* what api.list can answer: an error, no instance, or the live instances
ListResponses(ar, namespace) ==
    { Err, Ok(<<>>), Ok([i \in 1..MaxItems |-> Instance(ar, namespace, i)]) }

\* ------------------------------------------------------------------ state
VARIABLES
    pc,                \* position of main
    error,             \* the error main returned with, "none" while it runs
    opts,              \* CollectionOptions of the run
    format,            \* --format
    namespaces,        \* the namespaces main collects from
    nsIdx,             \* position of main's loop over namespaces
    platform,          \* the resource set the platform serves now
    catalog,           \* what the current pass's discovery returned
    idx,               \* position of the pass's loop over the catalog
    resources,         \* the pass's result map: kind -> instances
    fetched,           \* the list calls of the current pass with their answers
    stats,             \* the save call's stats map under construction
    files,             \* the output tree: path -> content
    dirs,              \* the directories created
    cluster_stats,     \* what save_cluster_resources returned
    namespace_stats,   \* main's namespace_stats vector
    discoveryCalls,    \* discovery runs so far
    listCalls,         \* every list call issued so far
    summary,           \* the collection summary, once written
    archive,           \* the archive, once written
    polKind,           \* the kind name the policy is asked about
    polResult,         \* its answer
    polPrev,           \* the options and the answer before an option changed
    sanValue,          \* the document sanitize_resource is given
    sanResults,        \* what sanitize_resource made of it, call after call
    vnRequested,       \* the names verify_namespaces is given
    vnAvailable,       \* what list_namespaces answered inside it
    vnResult,          \* what verify_namespaces returned
    clock,             \* what Utc::now() answers
    output_manager,    \* the OutputManager of the run
    summaries,         \* the summaries create_collection_summary has built
    answers            \* what the platform answers to the list of each descriptor

vars ==
    << pc, error, opts, format, namespaces, nsIdx, platform, catalog, idx, resources, fetched, stats, files, dirs,
       cluster_stats, namespace_stats, discoveryCalls, listCalls,
       summary, archive, polKind, polResult, polPrev,
       sanValue, sanResults, vnRequested, vnAvailable, vnResult,
       clock, output_manager, summaries, answers >>

sanVars == << sanValue, sanResults >>

vnVars == << vnRequested, vnAvailable, vnResult >>

sumVars == << clock, output_manager, summaries >>

ordVars == << answers >>

fnVars == << sanVars, vnVars, sumVars, ordVars >>

polVars == << polKind, polResult, polPrev, fnVars >>

EmptyMap == [k \in {} |-> 0]

Range(s) == { s[i] : i \in 1..Len(s) }

\* HashMap::insert: the value under an existing key is replaced
insert(m, k, v) == [x \in (DOMAIN m) \cup { k } |-> IF x = k THEN v ELSE m[x]]

\* ------------------------------------------------------------------ k8s.rs
\* a variant that walks the platform's list instead of the request
verify_in_platform_order(request, available) ==
    LET verified == SelectSeq(available, LAMBDA ns : ns \in Range(request))
    IN  IF verified = <<>> THEN Err ELSE Ok(verified)

\* the namespaces of `requested` that exist, in request order
verify_namespaces(request, available) ==
    LET verified == SelectSeq(request, LAMBDA ns : ns \in Range(available))
    IN  IF verified = <<>> THEN Err ELSE Ok(verified)

\* a variant that builds its vector from the front
collect_dynamic_reversed(response, o) ==
    IF ~response.ok
    THEN Err
    ELSE Ok([i \in 1..Len(response.val) |->
                LET item == response.val[Len(response.val) + 1 - i]
                IN  IF o.sanitize THEN sanitize_resource(item) ELSE item])

\* a variant that sanitizes whatever the run asks for
collect_dynamic_always_sanitized(response, o) ==
    IF ~response.ok
    THEN Err
    ELSE Ok([i \in 1..Len(response.val) |-> sanitize_resource(response.val[i])])

\* the items of one list answer, each sanitized when the run asks for it
collect_dynamic_resource(response, o) ==
    IF ~response.ok
    THEN Err
    ELSE Ok([i \in 1..Len(response.val) |->
                IF o.sanitize THEN sanitize_resource(response.val[i])
                ELSE response.val[i]])

\* a variant with a slip: a failed fetch drops what the pass has collected
record_result_dropping(m, kind, result) ==
    IF ~result.ok THEN EmptyMap
    ELSE IF result.val # <<>> THEN insert(m, kind, result.val) ELSE m

\* a variant that records whatever a successful fetch returned
record_result_any(m, kind, result) ==
    IF result.ok THEN insert(m, kind, result.val) ELSE m

\* the match on collect_dynamic_resource's result in both passes
record_result(m, kind, result) ==
    IF result.ok /\ result.val # <<>> THEN insert(m, kind, result.val) ELSE m

\* a variant of the loop that does not look at the scope
PassStep_any_scope(scope, namespace) ==
    /\ idx <= Len(catalog)
    /\ LET ar == catalog[idx]
       IN  IF ~should_collect_resource(ar.kind, opts)
           THEN UNCHANGED << resources, fetched, listCalls >>
           ELSE \E response \in ListResponses(ar, namespace) :
                   /\ listCalls' = listCalls \cup
                          { [kind |-> ar.kind, api_version |-> ar.api_version,
                             namespace |-> namespace] }
                   /\ fetched' = Append(fetched, [ar |-> ar, response |-> response])
                   /\ resources' =
                          record_result(resources, ar.kind,
                                        collect_dynamic_resource(response, opts))
    /\ idx' = idx + 1

\* one iteration of a pass's loop over the catalog
PassStep(scope, namespace) ==
    /\ idx <= Len(catalog)
    /\ LET ar == catalog[idx]
       IN  IF ar.scope # scope \/ ~should_collect_resource(ar.kind, opts)
           THEN UNCHANGED << resources, fetched, listCalls >>
           ELSE \E response \in ListResponses(ar, namespace) :
                   /\ listCalls' = listCalls \cup
                          { [kind |-> ar.kind, api_version |-> ar.api_version,
                             namespace |-> namespace] }
                   /\ fetched' = Append(fetched, [ar |-> ar, response |-> response])
                   /\ resources' =
                          record_result(resources, ar.kind,
                                        collect_dynamic_resource(response, opts))
    /\ idx' = idx + 1

\* a variant that takes a failed discovery for an empty catalog
Discover_tolerant(loop) ==
    /\ discoveryCalls' = discoveryCalls + 1
    /\ \E ok \in BOOLEAN :
          /\ catalog' = IF ok THEN platform ELSE <<>>
          /\ error' = IF ok THEN error ELSE "DiscoveryError"
          /\ idx' = 1
          /\ resources' = EmptyMap
          /\ fetched' = <<>>
          /\ pc' = loop

\* Discovery::run at the head of a pass
Discover(loop) ==
    /\ discoveryCalls' = discoveryCalls + 1
    /\ \E ok \in BOOLEAN :
          IF ok
          THEN /\ catalog' = platform
               /\ idx' = 1
               /\ resources' = EmptyMap
               /\ fetched' = <<>>
               /\ pc' = loop
               /\ error' = error
          ELSE /\ pc' = "failed"
               /\ error' = "DiscoveryError"
               /\ UNCHANGED << catalog, idx, resources, fetched >>

\* ------------------------------------------------------------------ output.rs
Formats == { "json", "yaml", "both" }

\* str::to_lowercase of a kind name, as its characters
to_lowercase(name) ==
    [i \in 1..Len(Chars(name)) |-> to_ascii_lowercase(Chars(name)[i])]

\* item.get("metadata").and_then(|m| m.get("name")).and_then(|n| n.as_str())
has_name(item) ==
    /\ has_key(item, "metadata")
    /\ has_key(item.fields["metadata"], "name")
    /\ item.fields["metadata"].fields["name"].tag = "string"

name_of(item) == item.fields["metadata"].fields["name"].val

\* fs::write: the file at `path` holds `content`, whatever it held before
write(fs, path, content) ==
    [q \in (DOMAIN fs) \cup { path } |-> IF q = path THEN content ELSE fs[q]]

\* a variant that stops after the first encoding
write_all_first_only(fs, resource_dir, item, exts, n) ==
    IF n = 0
    THEN fs
    ELSE write(fs,
               [dir |-> resource_dir, file |-> name_of(item), ext |-> exts[1]],
               [encoding |-> exts[1], doc |-> item])

RECURSIVE write_all(_, _, _, _, _)
write_all(fs, resource_dir, item, exts, n) ==
    IF n = 0
    THEN fs
    ELSE write(write_all(fs, resource_dir, item, exts, n - 1),
               [dir |-> resource_dir, file |-> name_of(item), ext |-> exts[n]],
               [encoding |-> exts[n], doc |-> item])

\* where a save can fail: nowhere, at the creation of the kind's directory,
\* or at the step-th write of the at-th item
NoFailure == [at |-> 0, step |-> 0]

DirFailure == [at |-> 0, step |-> 1]

FailPoints(items, fmt) ==
    { NoFailure, DirFailure } \cup
    { [at |-> i, step |-> s] :
        i \in { j \in 1..Len(items) : has_name(items[j]) },
        s \in 1..(IF fmt = "both" THEN 2 ELSE 1) }

RECURSIVE save_loop(_, _, _, _, _, _, _)
save_loop(fs, resource_dir, items, fmt, fail, i, saved_count) ==
    IF i > Len(items)
    THEN [ok |-> TRUE, count |-> saved_count, files |-> fs]
    ELSE IF ~has_name(items[i])
    THEN save_loop(fs, resource_dir, items, fmt, fail, i + 1, saved_count)
    ELSE IF fmt \notin Formats
    THEN [ok |-> FALSE, count |-> 0, files |-> fs]
    ELSE LET exts == IF fmt = "both" THEN << "json", "yaml" >> ELSE << fmt >>
             written == IF fail.at = i THEN fail.step - 1 ELSE Len(exts)
             fs2 == write_all(fs, resource_dir, items[i], exts, written)
         IN  IF fail.at = i
             THEN [ok |-> FALSE, count |-> 0, files |-> fs2]
             ELSE save_loop(fs2, resource_dir, items, fmt, fail, i + 1,
                            saved_count + 1)

save_resource_type(fs, base_dir, kind, items, fmt, fail) ==
    IF items = <<>>
    THEN [ok |-> TRUE, count |-> 0, files |-> fs]
    ELSE IF fail = DirFailure
    THEN [ok |-> FALSE, count |-> 0, files |-> fs]
    ELSE save_loop(fs, << base_dir, to_lowercase(kind) >>, items, fmt, fail, 1, 0)

RECURSIVE sum_values(_)
sum_values(m) ==
    IF DOMAIN m = {}
    THEN 0
    ELSE LET k == CHOOSE x \in DOMAIN m : TRUE
         IN  m[k] + sum_values(remove(m, { k }))

\* *totals.entry(kind).or_insert(0) += count, for every entry of m
add_counts(totals, m) ==
    [k \in (DOMAIN totals) \cup (DOMAIN m) |->
        (IF k \in DOMAIN totals THEN totals[k] ELSE 0)
        + (IF k \in DOMAIN m THEN m[k] ELSE 0)]

RECURSIVE resource_type_totals(_, _)
resource_type_totals(ns_stats, n) ==
    IF n = 0
    THEN EmptyMap
    ELSE add_counts(resource_type_totals(ns_stats, n - 1), ns_stats[n][2])

RECURSIVE total_namespaced(_, _)
total_namespaced(ns_stats, n) ==
    IF n = 0
    THEN 0
    ELSE total_namespaced(ns_stats, n - 1) + sum_values(ns_stats[n][2])

RECURSIVE namespace_details(_, _)
namespace_details(ns_stats, n) ==
    IF n = 0
    THEN EmptyMap
    ELSE insert(namespace_details(ns_stats, n - 1), ns_stats[n][1],
                [total_resources |-> sum_values(ns_stats[n][2]),
                 resource_types |-> ns_stats[n][2]])

collection_flags(o) ==
    (IF o.include_secrets THEN << "secrets" >> ELSE <<>>)
    \o (IF o.include_custom_resources THEN << "custom_resources" >> ELSE <<>>)
    \o (IF o.specific_crds.some THEN << o.specific_crds.list >> ELSE <<>>)
    \o (IF o.include_events THEN << "events" >> ELSE <<>>)
    \o (IF o.include_replicasets THEN << "replicasets" >> ELSE <<>>)
    \o (IF o.include_endpoints THEN << "endpoints" >> ELSE <<>>)
    \o (IF o.include_leases THEN << "leases" >> ELSE <<>>)

\* a variant without the loop that adds the cluster counts to the totals by
\* kind
create_summary_without_cluster_kinds(self, c_stats, ns_stats, o) ==
    LET total_cluster_resources == sum_values(c_stats)
        total_namespaced_resources == total_namespaced(ns_stats, Len(ns_stats))
    IN  [collection_info |->
            [timestamp |-> self.timestamp,
             sanitized |-> o.sanitize,
             optional_resources_included |-> collection_flags(o)],
         cluster_summary |->
            [total_namespaces |-> Len(ns_stats),
             total_cluster_resources |-> total_cluster_resources,
             total_namespaced_resources |-> total_namespaced_resources,
             total_resources |->
                 total_cluster_resources + total_namespaced_resources,
             resource_type_counts |->
                 resource_type_totals(ns_stats, Len(ns_stats))],
         cluster_resources |->
            [total_resources |-> total_cluster_resources,
             resource_types |-> c_stats],
         namespace_details |-> namespace_details(ns_stats, Len(ns_stats))]

\* a variant that stamps the summary with the time of the call
create_summary_stamped_now(self, c_stats, ns_stats, o) ==
    LET total_cluster_resources == sum_values(c_stats)
        total_namespaced_resources == total_namespaced(ns_stats, Len(ns_stats))
    IN  [collection_info |->
            [timestamp |-> clock,
             sanitized |-> o.sanitize,
             optional_resources_included |-> collection_flags(o)],
         cluster_summary |->
            [total_namespaces |-> Len(ns_stats),
             total_cluster_resources |-> total_cluster_resources,
             total_namespaced_resources |-> total_namespaced_resources,
             total_resources |->
                 total_cluster_resources + total_namespaced_resources,
             resource_type_counts |->
                 add_counts(resource_type_totals(ns_stats, Len(ns_stats)),
                            c_stats)],
         cluster_resources |->
            [total_resources |-> total_cluster_resources,
             resource_types |-> c_stats],
         namespace_details |-> namespace_details(ns_stats, Len(ns_stats))]

create_collection_summary(self, c_stats, ns_stats, o) ==
    LET total_cluster_resources == sum_values(c_stats)
        total_namespaced_resources == total_namespaced(ns_stats, Len(ns_stats))
    IN  [collection_info |->
            [timestamp |-> self.timestamp,
             sanitized |-> o.sanitize,
             optional_resources_included |-> collection_flags(o)],
         cluster_summary |->
            [total_namespaces |-> Len(ns_stats),
             total_cluster_resources |-> total_cluster_resources,
             total_namespaced_resources |-> total_namespaced_resources,
             total_resources |->
                 total_cluster_resources + total_namespaced_resources,
             resource_type_counts |->
                 add_counts(resource_type_totals(ns_stats, Len(ns_stats)),
                            c_stats)],
         cluster_resources |->
            [total_resources |-> total_cluster_resources,
             resource_types |-> c_stats],
         namespace_details |-> namespace_details(ns_stats, Len(ns_stats))]

Compressions == { "compressed", "uncompressed", "both" }

\* a variant whose arm for "both" keeps the directory and builds no archive
handle_compression_both_skips(compression, created) ==
    IF compression = "compressed"
    THEN IF created THEN [ok |-> TRUE, archive |-> TRUE]
         ELSE [ok |-> FALSE, archive |-> FALSE]
    ELSE IF compression \in { "uncompressed", "both" }
    THEN [ok |-> TRUE, archive |-> FALSE]
    ELSE [ok |-> FALSE, archive |-> FALSE]

\* Ok(Some(archive)), Ok(None) or Err, by the selector
handle_compression(compression, created) ==
    IF compression \in { "compressed", "both" }
    THEN IF created THEN [ok |-> TRUE, archive |-> TRUE]
         ELSE [ok |-> FALSE, archive |-> FALSE]
    ELSE IF compression = "uncompressed"
    THEN [ok |-> TRUE, archive |-> FALSE]
    ELSE [ok |-> FALSE, archive |-> FALSE]

\* ------------------------------------------------------------------ main.rs
\* --namespaces: absent, or the list it is split into
Requests ==
    { None, Some(<< "ns-a", "does-not-exist" >>), Some(<< "does-not-exist" >>),
      Some(<< "does-not-exist", "ns-a" >>) }

DefaultOptions ==
    [ include_secrets |-> FALSE, include_custom_resources |-> FALSE,
      include_events |-> FALSE, include_replicasets |-> FALSE,
      include_endpoints |-> FALSE, include_leases |-> FALSE,
      specific_crds |-> None, sanitize |-> TRUE ]

\* the options a run is started with: the defaults, -s -r, -E, -C with --crds,
\* and -C alone
RunOptions ==
    { DefaultOptions,
      [DefaultOptions EXCEPT !.include_secrets = TRUE, !.sanitize = FALSE],
      [DefaultOptions EXCEPT !.include_events = TRUE],
      [DefaultOptions EXCEPT !.include_custom_resources = TRUE,
                             !.specific_crds = Some(<< "widgets.example.com" >>)],
      [DefaultOptions EXCEPT !.include_custom_resources = TRUE] }

NoSummary == [written |-> FALSE, content |-> EmptyMap]

NoArchive == [mode |-> "none", created |-> FALSE]

Unset == [set |-> FALSE, val |-> FALSE]

NoPrev == [set |-> FALSE, opts |-> DefaultOptions, val |-> FALSE]

\* main returns Err(e)
Fail(e) == pc' = "failed" /\ error' = e

\* a variant of main that creates the output directory before it looks at
\* the namespaces
DetermineNamespaces_dir_first ==
    /\ pc = "start"
    /\ dirs' = dirs \cup { <<>> }
    /\ \E requested \in Requests :
          LET r == IF requested.some
                   THEN verify_namespaces(requested.list, AvailableNamespaces)
                   ELSE Ok(AvailableNamespaces)
          IN  IF r.ok
              THEN /\ namespaces' = r.val
                   /\ pc' = "create_output_directory"
                   /\ error' = error
              ELSE /\ Fail("NoValidNamespaces")
                   /\ namespaces' = namespaces
    /\ UNCHANGED << opts, format, nsIdx, platform,
                    catalog, idx, resources, fetched, stats, files,
                    cluster_stats, namespace_stats, discoveryCalls, listCalls,
                    summary, archive, polVars >>

\* main lines 94-101: the namespaces to collect from
DetermineNamespaces ==
    /\ pc = "start"
    /\ \E requested \in Requests, listed \in BOOLEAN :
          LET r == IF ~listed THEN Err
                   ELSE IF requested.some
                   THEN verify_namespaces(requested.list, AvailableNamespaces)
                   ELSE Ok(AvailableNamespaces)
          IN  IF r.ok
              THEN /\ namespaces' = r.val
                   /\ pc' = "create_output_directory"
                   /\ error' = error
              ELSE /\ Fail(IF listed THEN "NoValidNamespaces" ELSE "ListNamespaces")
                   /\ namespaces' = namespaces
    /\ UNCHANGED << opts, format, nsIdx, platform,
                    catalog, idx, resources, fetched, stats, files, dirs,
                    cluster_stats, namespace_stats, discoveryCalls, listCalls,
                    summary, archive, polVars >>

\* main lines 129-130
CreateOutputDirectory ==
    /\ pc = "create_output_directory"
    /\ \E ok \in BOOLEAN :
          IF ok
          THEN pc' = "cluster_discover" /\ error' = error /\ dirs' = dirs \cup { <<>> }
          ELSE Fail("CreateDir") /\ dirs' = dirs
    /\ UNCHANGED << opts, format, namespaces, nsIdx, platform, catalog, idx, resources, fetched, stats,
                    files, cluster_stats, namespace_stats, discoveryCalls,
                    listCalls, summary, archive, polVars >>

\* the platform's resource set changes while the run is under way: a CRD is
\* installed between two passes (a pass reads the resource set at its
\* discovery only)
PlatformChange ==
    /\ pc = "ns_discover"
    /\ InstalledCrd \notin Range(platform)
    /\ platform' = Append(platform, InstalledCrd)
    /\ UNCHANGED << pc, error, opts, format, namespaces, nsIdx, catalog, idx,
                    resources, fetched, stats, files, dirs, cluster_stats,
                    namespace_stats, discoveryCalls, listCalls, summary,
                    archive, polVars >>

passFrame ==
    << opts, format, namespaces, nsIdx, platform,
       stats, files, dirs, cluster_stats, namespace_stats, summary, archive,
       polVars >>

\* collect_cluster_resources: discovery
CollectClusterDiscover ==
    /\ pc = "cluster_discover"
    /\ Discover("cluster_loop")
    /\ UNCHANGED << passFrame, listCalls >>

\* collect_cluster_resources: one descriptor of the catalog
CollectClusterStep ==
    /\ pc = "cluster_loop"
    /\ PassStep("Cluster", NoNamespace)
    /\ UNCHANGED << passFrame, pc, error, catalog, discoveryCalls >>

\* collect_cluster_resources returns Ok(resources)
CollectClusterReturn ==
    /\ pc = "cluster_loop"
    /\ idx > Len(catalog)
    /\ pc' = "cluster_collected"
    /\ catalog' = <<>>
    /\ idx' = 0
    /\ UNCHANGED << passFrame, error, resources, fetched, discoveryCalls,
                    listCalls >>

saveFrame ==
    << opts, format, namespaces, platform, catalog, idx,
       resources, discoveryCalls, listCalls, polVars >>

\* save_*_resources: the partition's directory
SaveBegin(from, to, dir) ==
    /\ pc = from
    /\ stats' = EmptyMap
    /\ fetched' = <<>>
    /\ \E ok \in BOOLEAN :
          IF ok
          THEN pc' = to /\ error' = error /\ dirs' = dirs \cup { << dir >> }
          ELSE Fail("CreateDir") /\ dirs' = dirs
    /\ UNCHANGED << saveFrame, files, nsIdx, cluster_stats, namespace_stats,
                    summary, archive >>

\* save_*_resources: one kind of the map, in the map's iteration order
SaveKind(at, dir) ==
    /\ pc = at
    /\ \E kind \in (DOMAIN resources) \ (DOMAIN stats) :
          \E fail \in FailPoints(resources[kind], format) :
             LET r == save_resource_type(files, dir, kind, resources[kind],
                                         format, fail)
             IN  /\ files' = r.files
                 /\ dirs' = IF fail = DirFailure THEN dirs
                            ELSE dirs \cup { << dir, to_lowercase(kind) >> }
                 /\ IF r.ok
                    THEN /\ stats' = insert(stats, kind, r.count)
                         /\ pc' = pc
                         /\ error' = error
                    ELSE /\ Fail(IF fail = DirFailure THEN "CreateDir"
                                 ELSE "WriteError")
                         /\ stats' = stats
    /\ UNCHANGED << saveFrame, fetched, nsIdx, cluster_stats, namespace_stats,
                    summary, archive >>

SaveClusterBegin == SaveBegin("cluster_collected", "save_cluster", "cluster")

SaveClusterKind == SaveKind("save_cluster", "cluster")

\* save_cluster_resources returns Ok(stats); main enters its namespace loop
SaveClusterReturn ==
    /\ pc = "save_cluster"
    /\ DOMAIN stats = DOMAIN resources
    /\ cluster_stats' = stats
    /\ nsIdx' = 1
    /\ pc' = IF namespaces = <<>> THEN "summary" ELSE "ns_discover"
    /\ UNCHANGED << saveFrame, error, fetched, stats, files, dirs,
                    namespace_stats, summary, archive >>

\* collect_namespace_resources: discovery
CollectNamespaceDiscover ==
    /\ pc = "ns_discover"
    /\ Discover("ns_loop")
    /\ UNCHANGED << passFrame, listCalls >>

\* collect_namespace_resources: one descriptor of the catalog
CollectNamespaceStep ==
    /\ pc = "ns_loop"
    /\ PassStep("Namespaced", InNamespace(namespaces[nsIdx]))
    /\ UNCHANGED << passFrame, pc, error, catalog, discoveryCalls >>

\* collect_namespace_resources returns Ok(resources)
CollectNamespaceReturn ==
    /\ pc = "ns_loop"
    /\ idx > Len(catalog)
    /\ pc' = "ns_collected"
    /\ catalog' = <<>>
    /\ idx' = 0
    /\ UNCHANGED << passFrame, error, resources, fetched, discoveryCalls,
                    listCalls >>

SaveNamespaceBegin == SaveBegin("ns_collected", "save_ns", namespaces[nsIdx])

SaveNamespaceKind == SaveKind("save_ns", namespaces[nsIdx])

\* save_namespace_resources returns Ok(stats); main pushes them and moves on
SaveNamespaceReturn ==
    /\ pc = "save_ns"
    /\ DOMAIN stats = DOMAIN resources
    /\ namespace_stats' = Append(namespace_stats, << namespaces[nsIdx], stats >>)
    /\ nsIdx' = nsIdx + 1
    /\ pc' = IF nsIdx + 1 <= Len(namespaces) THEN "ns_discover" ELSE "summary"
    /\ UNCHANGED << saveFrame, error, fetched, stats, files, dirs,
                    cluster_stats, summary, archive >>

\* main lines 172-178
CreateCollectionSummary ==
    /\ pc = "summary"
    /\ \E ok \in BOOLEAN :
          IF ok
          THEN /\ summary' =
                      [written |-> TRUE,
                       content |-> create_collection_summary(
                                       output_manager, cluster_stats,
                                       namespace_stats, opts)]
               /\ pc' = "compress"
               /\ error' = error
          ELSE Fail("WriteError") /\ summary' = summary
    /\ UNCHANGED << saveFrame, fetched, stats, files, dirs, nsIdx,
                    cluster_stats, namespace_stats, archive >>

\* main lines 180-188
HandleCompression ==
    /\ pc = "compress"
    /\ \E compression \in Compressions, created \in BOOLEAN :
          LET r == handle_compression(compression, created)
          IN  /\ archive' = [mode |-> compression, created |-> r.archive]
              /\ IF r.ok THEN pc' = "done" /\ error' = error
                 ELSE Fail("ArchiveError")
    /\ UNCHANGED << opts, format, namespaces, nsIdx, platform, catalog, idx, resources, fetched, stats,
                    files, dirs, cluster_stats, namespace_stats,
                    discoveryCalls, listCalls, summary, polVars >>

SanitizerIdle == sanValue = Str("") /\ sanResults = <<>>

VerifierIdle == vnRequested = <<>> /\ vnAvailable = <<>> /\ vnResult = Err

\* OutputManager::new_output_manager: the timestamp is read once
new_output_manager(now) == [timestamp |-> now]

\* the manager main builds at line 129; nothing main does reads the clock
\* again
ManagerBuilt ==
    /\ clock = 0
    /\ output_manager = new_output_manager(clock)
    /\ summaries = <<>>

\* no function is under study on its own
\* the answers are drawn call by call
AnswersFree == answers = EmptyMap

FunctionsIdle == SanitizerIdle /\ VerifierIdle /\ ManagerBuilt /\ AnswersFree

Init ==
    /\ pc = "start"
    /\ error = "none"
    /\ opts \in RunOptions
    /\ format \in Formats
    /\ namespaces = <<>>
    /\ nsIdx = 0
    /\ platform = BaseCatalog
    /\ catalog = <<>>
    /\ idx = 0
    /\ resources = EmptyMap
    /\ fetched = <<>>
    /\ stats = EmptyMap
    /\ files = EmptyMap
    /\ dirs = {}
    /\ cluster_stats = EmptyMap
    /\ namespace_stats = <<>>
    /\ discoveryCalls = 0
    /\ listCalls = {}
    /\ summary = NoSummary
    /\ archive = NoArchive
    /\ polKind = "Pod"
    /\ polResult = Unset
    /\ polPrev = NoPrev
    /\ FunctionsIdle

Next ==
    \/ DetermineNamespaces
    \/ CreateOutputDirectory
    \/ PlatformChange
    \/ CollectClusterDiscover
    \/ CollectClusterStep
    \/ CollectClusterReturn
    \/ SaveClusterBegin
    \/ SaveClusterKind
    \/ SaveClusterReturn
    \/ CollectNamespaceDiscover
    \/ CollectNamespaceStep
    \/ CollectNamespaceReturn
    \/ SaveNamespaceBegin
    \/ SaveNamespaceKind
    \/ SaveNamespaceReturn
    \/ CreateCollectionSummary
    \/ HandleCompression

Spec == Init /\ [][Next]_vars

\* ------------------------------------------------------------------ the policy alone
\* should_collect_resource over every kind name and every options value: it
\* is asked once, then one option changes and it is asked again.
InitPolicy ==
    /\ pc = "policy"
    /\ error = "none"
    /\ opts \in CollectionOptions
    /\ format = "yaml"
    /\ namespaces = <<>>
    /\ nsIdx = 0
    /\ platform = BaseCatalog
    /\ catalog = <<>>
    /\ idx = 0
    /\ resources = EmptyMap
    /\ fetched = <<>>
    /\ stats = EmptyMap
    /\ files = EmptyMap
    /\ dirs = {}
    /\ cluster_stats = EmptyMap
    /\ namespace_stats = <<>>
    /\ discoveryCalls = 0
    /\ listCalls = {}
    /\ summary = NoSummary
    /\ archive = NoArchive
    /\ polKind \in KindNames
    /\ polResult = Unset
    /\ polPrev = NoPrev
    /\ FunctionsIdle

mainVars ==
    << pc, error, format, namespaces, nsIdx, platform, catalog, idx, resources,
       fetched, stats, files, dirs, cluster_stats, namespace_stats,
       discoveryCalls, listCalls, summary, archive >>

policyFrame == << mainVars, fnVars >>

Asked(o) == [set |-> TRUE, val |-> should_collect_resource(polKind, o)]

PolicyAsk ==
    /\ pc = "policy"
    /\ ~polResult.set
    /\ polResult' = Asked(opts)
    /\ UNCHANGED << policyFrame, opts, polKind, polPrev >>

\* one boolean option is flipped and the policy asked again
PolicyFlip ==
    /\ pc = "policy"
    /\ polResult.set
    /\ ~polPrev.set
    /\ \E f \in Toggles : opts' = [opts EXCEPT ![f] = ~@]
    /\ polPrev' = [set |-> TRUE, opts |-> opts, val |-> polResult.val]
    /\ polResult' = Asked(opts')
    /\ UNCHANGED << policyFrame, polKind >>

\* the allow-list is replaced and the policy asked again
PolicySetCrds ==
    /\ pc = "policy"
    /\ polResult.set
    /\ ~polPrev.set
    /\ \E l \in CrdLists \ { opts.specific_crds } :
          opts' = [opts EXCEPT !.specific_crds = l]
    /\ polPrev' = [set |-> TRUE, opts |-> opts, val |-> polResult.val]
    /\ polResult' = Asked(opts')
    /\ UNCHANGED << policyFrame, polKind >>

NextPolicy == PolicyAsk \/ PolicyFlip \/ PolicySetCrds

SpecPolicy == InitPolicy /\ [][NextPolicy]_vars

\* ------------------------------------------------------------------ the sanitizer alone
\* the run's variables while one function is studied on its own
RunIdle ==
    /\ error = "none"
    /\ format = "yaml"
    /\ namespaces = <<>>
    /\ nsIdx = 0
    /\ platform = BaseCatalog
    /\ catalog = <<>>
    /\ idx = 0
    /\ resources = EmptyMap
    /\ fetched = <<>>
    /\ stats = EmptyMap
    /\ files = EmptyMap
    /\ dirs = {}
    /\ discoveryCalls = 0
    /\ listCalls = {}
    /\ summary = NoSummary
    /\ archive = NoArchive
    /\ polKind = "Pod"
    /\ polResult = Unset
    /\ polPrev = NoPrev

StatsIdle ==
    /\ opts = DefaultOptions
    /\ cluster_stats = EmptyMap
    /\ namespace_stats = <<>>

MetadataKeys == { "name", "namespace", "labels" } \cup MetadataNoise

\* the values a document can hold under metadata: nothing, a scalar, or a
\* mapping over any of the keys
Metadatas ==
    { Str("metadata") } \cup
    { Obj([k \in ks |-> Str(k)]) : ks \in SUBSET MetadataKeys }

\* a spec that itself carries a status, a uid and a metadata mapping
NestedSpec ==
    Obj([status |-> Str("inner"),
         uid |-> Str("inner"),
         metadata |-> Obj([uid |-> Str("inner"), name |-> Str("inner")])])

TopLevel(k) == IF k = "spec" THEN NestedSpec ELSE Str(k)

\* serde_json values: scalars, and mappings with or without metadata, spec,
\* status and kind
Documents ==
    { Str("scalar") } \cup
    { Obj([k \in ks |-> TopLevel(k)]) : ks \in SUBSET { "kind", "spec", "status" } }
    \cup
    { Obj([k \in ks \cup { "metadata" } |->
              IF k = "metadata" THEN m ELSE TopLevel(k)]) :
        ks \in SUBSET { "kind", "spec", "status" }, m \in Metadatas }

InitSanitize ==
    /\ pc = "sanitize"
    /\ RunIdle
    /\ StatsIdle
    /\ sanValue \in Documents
    /\ sanResults = <<>>
    /\ VerifierIdle
    /\ ManagerBuilt
    /\ AnswersFree

\* sanitize_resource(&mut value)
Sanitize ==
    /\ pc = "sanitize"
    /\ sanResults = <<>>
    /\ sanResults' = << sanitize_resource(sanValue) >>
    /\ UNCHANGED << mainVars, opts, polKind, polResult, polPrev, sanValue,
                    vnVars, sumVars, ordVars >>

\* sanitize_resource on a document it has already sanitized
SanitizeAgain ==
    /\ pc = "sanitize"
    /\ Len(sanResults) = 1
    /\ sanResults' = Append(sanResults, sanitize_resource(sanResults[1]))
    /\ UNCHANGED << mainVars, opts, polKind, polResult, polPrev, sanValue,
                    vnVars, sumVars, ordVars >>

NextSanitize == Sanitize \/ SanitizeAgain

SpecSanitize == InitSanitize /\ [][NextSanitize]_vars

\* ------------------------------------------------------------------ the verifier alone
RequestedNames == { "ns-a", "default", "does-not-exist" }

\* --namespaces split at its commas: at least one name
RequestLists == SeqsUpTo(RequestedNames, MaxRequested) \ { <<>> }

\* what list_namespaces can answer, in the platform's order
NamespaceLists ==
    { <<>>, << "ns-a" >>, << "default" >>, << "kube-system" >>,
      << "default", "ns-a" >>, << "ns-a", "default" >>,
      << "default", "kube-system", "ns-a" >> }

InitVerify ==
    /\ pc = "verify"
    /\ RunIdle
    /\ StatsIdle
    /\ SanitizerIdle
    /\ ManagerBuilt
    /\ AnswersFree
    /\ vnRequested \in RequestLists
    /\ vnAvailable \in NamespaceLists
    /\ vnResult = Err

\* verify_namespaces(requested), with the listing inside it
VerifyNamespaces ==
    /\ pc = "verify"
    /\ \E listed \in BOOLEAN :
          IF ~listed
          THEN Fail("ListNamespaces") /\ vnResult' = Err
          ELSE /\ vnResult' = verify_namespaces(vnRequested, vnAvailable)
               /\ IF vnResult'.ok
                  THEN pc' = "verified" /\ error' = error
                  ELSE Fail("NoValidNamespaces")
    /\ UNCHANGED << opts, format, namespaces, nsIdx, platform, catalog, idx,
                    resources, fetched, stats, files, dirs, cluster_stats,
                    namespace_stats, discoveryCalls, listCalls, summary, archive,
                    polKind, polResult, polPrev, sanVars,
                    vnRequested, vnAvailable, sumVars, ordVars >>

NextVerify == VerifyNamespaces

SpecVerify == InitVerify /\ [][NextVerify]_vars

\* ------------------------------------------------------------------ the summary alone
\* the stats maps a save can return over the kinds ks: any of the kinds, each
\* with a count (0 when none of its instances has a name)
StatsOver(ks) ==
    UNION { [d -> 0..MaxCount] : d \in SUBSET ks }

ClusterStats == StatsOver({ "Namespace", "Event" })

NamespaceStats == StatsOver({ "Pod", "Event" })

\* the namespaces main has gone through, a repeated one included
SavedNamespaces ==
    { <<>>, << "default" >>, << "default", "ns-a" >>, << "ns-a", "ns-a" >> }

\* main's namespace_stats vector over those namespaces
NamespaceStatsVectors ==
    UNION { { [n \in 1..Len(l) |-> << l[n], f[n] >>] :
                f \in [1..Len(l) -> NamespaceStats] } :
            l \in SavedNamespaces }

InitSummary ==
    /\ pc = "summary"
    /\ RunIdle
    /\ opts = DefaultOptions
    /\ cluster_stats \in ClusterStats
    /\ namespace_stats \in NamespaceStatsVectors
    /\ FunctionsIdle

NextSummary == CreateCollectionSummary

SpecSummary == InitSummary /\ [][NextSummary]_vars

\* ------------------------------------------------------------------ the summary, computed again
InitRecompute ==
    /\ pc = "summary"
    /\ RunIdle
    /\ opts = DefaultOptions
    /\ cluster_stats \in ClusterStats
    /\ namespace_stats \in NamespaceStatsVectors
    /\ FunctionsIdle

\* time passes between two calls
Tick ==
    /\ pc = "summary"
    /\ clock < MaxClock
    /\ clock' = clock + 1
    /\ UNCHANGED << mainVars, opts, polKind, polResult, polPrev, sanVars,
                    vnVars, output_manager, summaries, ordVars >>

\* create_collection_summary, called on the same manager, stats and options
Summarize ==
    /\ pc = "summary"
    /\ Len(summaries) < 2
    /\ \E ok \in BOOLEAN :
          IF ok
          THEN /\ summaries' =
                      Append(summaries,
                             create_collection_summary(output_manager,
                                 cluster_stats, namespace_stats, opts))
               /\ summary' = [written |-> TRUE, content |-> summaries'[Len(summaries')]]
               /\ pc' = pc
               /\ error' = error
          ELSE Fail("WriteError") /\ UNCHANGED << summary, summaries >>
    /\ UNCHANGED << opts, format, namespaces, nsIdx, platform, catalog, idx,
                    resources, fetched, stats, files, dirs, cluster_stats,
                    namespace_stats, discoveryCalls, listCalls, archive,
                    polKind, polResult, polPrev, sanVars, vnVars, clock,
                    output_manager, ordVars >>

NextRecompute == Tick \/ Summarize

SpecRecompute == InitRecompute /\ [][NextRecompute]_vars

\* ------------------------------------------------------------------ a platform that does not answer
\* api.list(..).await with a platform that never answers: the program sets
\* no timer on the call, and the future stays pending
ListPending(loop, scope, namespace) ==
    /\ pc = loop
    /\ idx <= Len(catalog)
    /\ catalog[idx].scope = scope
    /\ should_collect_resource(catalog[idx].kind, opts)
    /\ listCalls' = listCalls \cup
           { [kind |-> catalog[idx].kind,
              api_version |-> catalog[idx].api_version,
              namespace |-> namespace] }
    /\ pc' = "list_pending"
    /\ UNCHANGED << passFrame, error, catalog, idx, resources, fetched,
                    discoveryCalls >>

CollectClusterPending == ListPending("cluster_loop", "Cluster", NoNamespace)

CollectNamespacePending ==
    ListPending("ns_loop", "Namespaced", InNamespace(namespaces[nsIdx]))

NextPending == Next \/ CollectClusterPending \/ CollectNamespacePending

\* main is a single task: it takes its next step whenever it has one
SpecPending == Init /\ [][NextPending]_vars /\ WF_vars(NextPending)

\* ------------------------------------------------------------------ the order of the catalog
\* Discovery::groups iterates a map of the groups: the descriptors reach the
\* loop of a pass in any order
Orders(S) ==
    { f \in [1..Cardinality(S) -> S] :
        \A i, j \in 1..Cardinality(S) : f[i] = f[j] => i = j }

\* the Namespaced descriptors of the catalog that a run with events fetches
OrderedDescriptors ==
    { Descriptor("Pod", "v1", "Namespaced"),
      Descriptor("Event", "v1", "Namespaced"),
      Descriptor("Event", "events.k8s.io/v1", "Namespaced") }

OrderedNamespace == InNamespace("default")

InitOrder ==
    /\ pc = "ns_loop"
    /\ error = "none"
    /\ opts \in { DefaultOptions, [DefaultOptions EXCEPT !.include_events = TRUE] }
    /\ format = "yaml"
    /\ namespaces = << "default" >>
    /\ nsIdx = 1
    /\ platform = BaseCatalog
    /\ catalog \in Orders(OrderedDescriptors)
    /\ idx = 1
    /\ resources = EmptyMap
    /\ fetched = <<>>
    /\ stats = EmptyMap
    /\ files = EmptyMap
    /\ dirs = {}
    /\ cluster_stats = EmptyMap
    /\ namespace_stats = <<>>
    /\ discoveryCalls = 0
    /\ listCalls = {}
    /\ summary = NoSummary
    /\ archive = NoArchive
    /\ polKind = "Pod"
    /\ polResult = Unset
    /\ polPrev = NoPrev
    /\ SanitizerIdle
    /\ VerifierIdle
    /\ ManagerBuilt
    /\ answers \in [OrderedDescriptors ->
                       UNION { ListResponses(ar, OrderedNamespace) :
                               ar \in OrderedDescriptors }]
    /\ \A ar \in OrderedDescriptors :
          answers[ar] \in ListResponses(ar, OrderedNamespace)

\* one iteration of collect_namespace_resources' loop, the platform answering
\* each descriptor as `answers` says
OrderedStep ==
    /\ pc = "ns_loop"
    /\ idx <= Len(catalog)
    /\ LET ar == catalog[idx]
       IN  IF ar.scope # "Namespaced" \/ ~should_collect_resource(ar.kind, opts)
           THEN UNCHANGED << resources, fetched, listCalls >>
           ELSE /\ listCalls' = listCalls \cup
                       { [kind |-> ar.kind, api_version |-> ar.api_version,
                          namespace |-> OrderedNamespace] }
                /\ fetched' = Append(fetched, [ar |-> ar, response |-> answers[ar]])
                /\ resources' =
                       record_result(resources, ar.kind,
                                     collect_dynamic_resource(answers[ar], opts))
    /\ idx' = idx + 1
    /\ UNCHANGED << passFrame, pc, error, catalog, discoveryCalls >>

NextOrder == OrderedStep \/ CollectNamespaceReturn

SpecOrder == InitOrder /\ [][NextOrder]_vars

\* ------------------------------------------------------------------ the archiver, in the run and alone
\* what handle_compression can be handed as its selector: the three values the
\* command line lets through, and others
Selectors == Compressions \cup { "zip", "" }

\* handle_compression is called on an output directory by itself
InitCompress ==
    /\ pc = "handle_compression"
    /\ RunIdle
    /\ StatsIdle
    /\ FunctionsIdle

\* handle_compression(output_dir, compression)
CompressCall ==
    /\ pc = "handle_compression"
    /\ \E compression \in Selectors, created \in BOOLEAN :
          LET r == handle_compression(compression, created)
          IN  /\ archive' = [mode |-> compression, created |-> r.archive]
              /\ IF r.ok THEN pc' = "returned" /\ error' = error
                 ELSE Fail("ArchiveError")
    /\ UNCHANGED << opts, format, namespaces, nsIdx, platform, catalog, idx,
                    resources, fetched, stats, files, dirs, cluster_stats,
                    namespace_stats, discoveryCalls, listCalls, summary,
                    polVars >>

NextCompress == Next \/ CompressCall

SpecCompress == (Init \/ InitCompress) /\ [][NextCompress]_vars

\* ------------------------------------------------------------------ a namespace named as the cluster partition
\* main has determined its namespaces on a platform whose one namespace is
\* named "cluster"
InitClusterNamespace ==
    /\ pc = "create_output_directory"
    /\ error = "none"
    /\ opts = DefaultOptions
    /\ format \in Formats
    /\ namespaces = << "cluster" >>
    /\ nsIdx = 0
    /\ platform = BaseCatalog
    /\ catalog = <<>>
    /\ idx = 0
    /\ resources = EmptyMap
    /\ fetched = <<>>
    /\ StatsIdle
    /\ stats = EmptyMap
    /\ files = EmptyMap
    /\ dirs = {}
    /\ discoveryCalls = 0
    /\ listCalls = {}
    /\ summary = NoSummary
    /\ archive = NoArchive
    /\ polKind = "Pod"
    /\ polResult = Unset
    /\ polPrev = NoPrev
    /\ FunctionsIdle

SpecClusterNamespace == (Init \/ InitClusterNamespace) /\ [][Next]_vars

\* ------------------------------------------------------------------ claims
InPass == pc \in { "cluster_loop", "cluster_collected", "ns_loop", "ns_collected" }

InLoop == pc \in { "cluster_loop", "ns_loop" }

PassScope == IF pc \in { "cluster_loop", "cluster_collected" } THEN "Cluster"
             ELSE "Namespaced"

\* the descriptors the pass has to fetch among the first n of its catalog
Due(n) ==
    SelectSeq(SubSeq(catalog, 1, n),
              LAMBDA ar : ar.scope = PassScope
                          /\ should_collect_resource(ar.kind, opts))

\* the list calls of the pass that answered with at least one instance
Answered == { i \in 1..Len(fetched) :
                fetched[i].response.ok /\ fetched[i].response.val # <<>> }

\* the last of them for kind k
LastAnswer(k) ==
    CHOOSE i \in Answered :
        /\ fetched[i].ar.kind = k
        /\ \A j \in Answered : fetched[j].ar.kind = k => j <= i

Recorded(items) ==
    [i \in 1..Len(items) |->
        IF opts.sanitize THEN sanitize_resource(items[i]) ELSE items[i]]

C2_DiscoveryOnce ==
    /\ discoveryCalls <= 1
    /\ pc = "done" => discoveryCalls = 1

\* C3: when the saving of one namespace fails, every other verified
\* namespace is collected, saved and counted: once the run has ended on that
\* failure, namespace_stats holds an entry for each of the others.
C3_NamespacesIndependent ==
    (/\ pc = "failed"
     /\ nsIdx \in 1..Len(namespaces)
     /\ error \in { "WriteError", "CreateDir" }) =>
        \A j \in (1..Len(namespaces)) \ { nsIdx } :
            \E i \in 1..Len(namespace_stats) :
                namespace_stats[i][1] = namespaces[j]

\* the names with a dot, and the names equal up to ASCII case
DottedKinds ==
    { "widgets.example.com", "WIDGETS.Example.com", "gadgets.example.com",
      "v1.Secret" }

CaseFolded(name) ==
    IF name \in { "widgets.example.com", "WIDGETS.Example.com" }
    THEN "widgets.example.com"
    ELSE name

\* C4: for a kind name with a dot the answer is, with an allow-list, whether
\* the list holds the name up to ASCII case (the blanket toggle is not read),
\* and without one the blanket toggle.
C4_AllowListPrecedence ==
    (polResult.set /\ polKind \in DottedKinds) =>
        polResult.val =
            IF opts.specific_crds.some
            THEN \E i \in 1..Len(opts.specific_crds.list) :
                    CaseFolded(opts.specific_crds.list[i]) = CaseFolded(polKind)
            ELSE opts.include_custom_resources

\* a custom kind outside the allow-list is refused with the blanket toggle on
C4_Witness ==
    /\ polResult.set
    /\ polKind = "gadgets.example.com"
    /\ opts.include_custom_resources
    /\ opts.specific_crds = Some(<< "widgets.example.com" >>)
    /\ ~polResult.val

\* C5: the answer for Secret is the secrets toggle, whatever the other
\* options are, and it stays when any other option changes.
C5_SecretBySecretsToggle ==
    (polResult.set /\ polKind = "Secret") =>
        /\ polResult.val = opts.include_secrets
        /\ (polPrev.set /\ polPrev.opts.include_secrets = opts.include_secrets)
              => polResult.val = polPrev.val

\* Secret is included with every other toggle off, after another option changed
C5_Witness ==
    /\ polResult.set
    /\ polKind = "Secret"
    /\ polPrev.set
    /\ polPrev.opts.include_secrets
    /\ opts = [DefaultOptions EXCEPT !.include_secrets = TRUE,
                                     !.sanitize = FALSE]
    /\ polResult.val

\* the stats maps of the run: the one under construction, the cluster's, each
\* namespace's, and the summary's per-kind totals
StatsMaps ==
    { stats, cluster_stats }
    \cup { namespace_stats[i][2] : i \in 1..Len(namespace_stats) }
    \cup (IF summary.written
          THEN { summary.content.cluster_summary.resource_type_counts }
          ELSE {})

\* C6: in a run without include_secrets no list call is issued for Secret, and
\* Secret is a key of no result map, of no file's directory or document and
\* of no statistics; with the default options a namespace's result holds
\* nothing but Pod.
C6_NoSecretsUnlessAsked ==
    ~opts.include_secrets =>
        /\ \A c \in listCalls : c.kind # "Secret"
        /\ "Secret" \notin DOMAIN resources
        /\ \A f \in DOMAIN files :
              /\ f.dir[2] # to_lowercase("Secret")
              /\ files[f].doc.fields["kind"] # Str("Secret")
        /\ \A m \in StatsMaps : "Secret" \notin DOMAIN m
        /\ (opts = DefaultOptions /\ pc \in { "ns_loop", "ns_collected", "save_ns" })
              => DOMAIN resources \subseteq { "Pod" }

\* namespace "default" has been collected without secrets while the platform
\* serves Secret: the result holds Pod only
C6_Witness ==
    /\ ~opts.include_secrets
    /\ pc = "ns_collected"
    /\ namespaces[nsIdx] = "default"
    /\ \E i \in 1..Len(platform) : platform[i].kind = "Secret"
    /\ DOMAIN resources = { "Pod" }
    /\ [kind |-> "Pod", api_version |-> "v1", namespace |-> InNamespace("default")]
          \in listCalls

AllToggles(o, b) == \A f \in Toggles : o[f] = b

\* C7: the answer for ComponentStatus and for Binding is no, under every
\* options value.
C7_DenylistAlwaysExcluded ==
    (polResult.set /\ polKind \in { "ComponentStatus", "Binding" })
        => ~polResult.val

\* ComponentStatus is refused with every toggle on
C7_Witness ==
    /\ polResult.set
    /\ polKind = "ComponentStatus"
    /\ AllToggles(opts, TRUE)
    /\ opts.specific_crds.some
    /\ ~polResult.val

\* the toggle that gates each high-volume kind
OwnToggle(kind) ==
    CASE kind = "Event" -> "include_events"
      [] kind = "Lease" -> "include_leases"
      [] kind = "ReplicaSet" -> "include_replicasets"
      [] kind \in { "Endpoints", "EndpointSlice" } -> "include_endpoints"

HighVolumeKinds == { "Event", "Lease", "ReplicaSet", "Endpoints", "EndpointSlice" }

\* C8: the answer for Event, Lease, ReplicaSet, Endpoints and EndpointSlice is
\* the kind's own toggle, and it stays when any other option changes.
C8_HighVolumeByOwnToggle ==
    (polResult.set /\ polKind \in HighVolumeKinds) =>
        /\ polResult.val = opts[OwnToggle(polKind)]
        /\ (polPrev.set
            /\ polPrev.opts[OwnToggle(polKind)] = opts[OwnToggle(polKind)])
              => polResult.val = polPrev.val

\* EndpointSlice stays included when include_events is flipped
C8_Witness ==
    /\ polResult.set
    /\ polKind = "EndpointSlice"
    /\ polPrev.set
    /\ polPrev.opts.include_events # opts.include_events
    /\ opts.include_endpoints
    /\ polResult.val
    /\ polPrev.val

\* the names of KindNames that are matched exactly by no rule and hold no dot
PlainKinds == { "Pod", "Namespace", "secret", "Widget" }

\* C9: a kind name that no rule matches exactly and that holds no dot is
\* included under every options value.
C9_StandardAlwaysIncluded ==
    (polResult.set /\ polKind \in PlainKinds) => polResult.val

\* "secret" is included with every toggle off and an empty allow-list
C9_Witness ==
    /\ polResult.set
    /\ polKind = "secret"
    /\ AllToggles(opts, FALSE)
    /\ opts.specific_crds = Some(<<>>)
    /\ polResult.val

\* the document the i-th call of the sanitizer was given
SanitizerInput(i) == IF i = 1 THEN sanValue ELSE sanResults[i - 1]

\* C11: sanitize_resource removes from a mapping exactly the six metadata
\* subfields uid, resourceVersion, selfLink, creationTimestamp, generation and
\* managedFields and the top-level status, and leaves every other field with
\* its value; when metadata is missing or is not a mapping the document only
\* loses status; a document that is not a mapping comes back unchanged.
C11_SanitizeRemovesExactly ==
    \A i \in 1..Len(sanResults) :
        LET d == SanitizerInput(i)
            s == sanResults[i]
        IN  IF d.tag # "object" THEN s = d
            ELSE /\ s.tag = "object"
                 /\ DOMAIN s.fields = (DOMAIN d.fields) \ { "status" }
                 /\ \A k \in (DOMAIN s.fields) \ { "metadata" } :
                        s.fields[k] = d.fields[k]
                 /\ "metadata" \in DOMAIN d.fields =>
                        LET m == d.fields["metadata"]
                            n == s.fields["metadata"]
                        IN  IF m.tag # "object" THEN n = m
                            ELSE /\ n.tag = "object"
                                 /\ DOMAIN n.fields =
                                        { k \in DOMAIN m.fields :
                                            k \notin { "uid", "resourceVersion",
                                                       "selfLink", "generation",
                                                       "creationTimestamp",
                                                       "managedFields" } }
                                 /\ \A k \in DOMAIN n.fields :
                                        n.fields[k] = m.fields[k]

\* a document whose metadata is a scalar has been through the sanitizer: it
\* lost its status and kept its metadata and its spec
C11_Witness ==
    /\ sanResults # <<>>
    /\ has_key(sanValue, "metadata")
    /\ ~is_object(sanValue.fields["metadata"])
    /\ has_key(sanValue, "status")
    /\ has_key(sanValue, "spec")
    /\ ~has_key(sanResults[1], "status")
    /\ sanResults[1].fields["metadata"] = Str("metadata")
    /\ sanResults[1].fields["spec"] = NestedSpec

\* every path of field names that leads to a value inside v
RECURSIVE Paths(_)
Paths(v) ==
    IF v.tag # "object" THEN {}
    ELSE UNION { { << k >> } \cup { << k >> \o p : p \in Paths(v.fields[k]) } :
                 k \in DOMAIN v.fields }

\* C12: sanitizing is idempotent, sanitize(sanitize(d)) = sanitize(d), and
\* it never adds a field: every field of sanitize(d) is a field of d.
C12_SanitizeIdempotent ==
    /\ Len(sanResults) = 2 => sanResults[2] = sanResults[1]
    /\ Len(sanResults) >= 1 => Paths(sanResults[1]) \subseteq Paths(sanValue)

\* a document with noise, a name and a status has been sanitized twice
C12_Witness ==
    /\ Len(sanResults) = 2
    /\ has_key(sanValue, "status")
    /\ has_key(sanValue, "metadata")
    /\ is_object(sanValue.fields["metadata"])
    /\ { "uid", "managedFields", "name" } \subseteq
            DOMAIN sanValue.fields["metadata"].fields
    /\ sanResults[1] # sanValue
    /\ << "metadata", "name" >> \in Paths(sanResults[2])

\* a live instance without what the sanitizer is to take from it
WithoutNoise(d) ==
    Obj([k \in { "apiVersion", "kind", "metadata", "spec" } |->
            IF k = "metadata"
            THEN Obj([j \in (DOMAIN d.fields["metadata"].fields)
                                \cap { "name", "namespace" } |->
                         d.fields["metadata"].fields[j]])
            ELSE d.fields[k]])

\* C13: with sanitize false every document recorded in the result map is the
\* fetched document itself, uid, resourceVersion and status included; with
\* sanitize true it is the fetched document without the sanitizer's fields.
C13_RawKeepsDocuments ==
    InPass =>
        \A k \in DOMAIN resources :
            LET answer == fetched[LastAnswer(k)].response.val
            IN  /\ Len(resources[k]) = Len(answer)
                /\ \A i \in 1..Len(answer) :
                      IF opts.sanitize
                      THEN resources[k][i] = WithoutNoise(answer[i])
                      ELSE /\ resources[k][i] = answer[i]
                           /\ has_key(resources[k][i], "status")
                           /\ { "uid", "resourceVersion" } \subseteq
                                 DOMAIN resources[k][i].fields["metadata"].fields

\* a raw run has recorded an instance that still carries uid and status
C13_Witness ==
    /\ InPass
    /\ ~opts.sanitize
    /\ \E k \in DOMAIN resources :
          /\ has_key(resources[k][1], "status")
          /\ has_key(resources[k][1].fields["metadata"], "uid")
          /\ resources[k] = fetched[LastAnswer(k)].response.val

\* C14: in every state of either pass, and after it, every key of the result
\* map maps to a non-empty sequence: a kind with no instance has no entry.
C14_NoEmptyEntries ==
    \A k \in DOMAIN resources : resources[k] # <<>>

\* a pass has gone past a fetch that answered with no instance and past one
\* that answered with some: only the second kind is in the map
C14_Witness ==
    /\ InPass
    /\ DOMAIN resources # {}
    /\ \E i \in 1..Len(fetched) :
          /\ fetched[i].response = Ok(<<>>)
          /\ fetched[i].ar.kind \notin DOMAIN resources

\* the positions of the request whose namespace the platform has
Existing ==
    { i \in 1..Len(vnRequested) :
        \E j \in 1..Len(vnAvailable) : vnAvailable[j] = vnRequested[i] }

\* the n-th of them
NthExisting(n) ==
    CHOOSE i \in Existing : Cardinality({ j \in Existing : j <= i }) = n

\* C15: once the namespaces are listed, verify_namespaces returns exactly the
\* requested namespaces that exist, in request order, and drops the missing
\* ones; it fails with the no-valid-namespaces error exactly when none of the
\* requested namespaces exists.
C15_VerifyKeepsExisting ==
    (pc # "verify" /\ error # "ListNamespaces") =>
        /\ (pc = "failed" /\ error = "NoValidNamespaces") <=> Existing = {}
        /\ vnResult.ok <=> Existing # {}
        /\ vnResult.ok =>
              /\ Len(vnResult.val) = Cardinality(Existing)
              /\ \A n \in 1..Len(vnResult.val) :
                    vnResult.val[n] = vnRequested[NthExisting(n)]

\* the request ns-a, does-not-exist against a platform that has only ns-a
\* has been verified to ns-a
C15_Witness ==
    /\ pc = "verified"
    /\ vnRequested = << "ns-a", "does-not-exist" >>
    /\ vnAvailable = << "ns-a" >>
    /\ vnResult = Ok(<< "ns-a" >>)

\* C16: a run that has failed with NoValidNamespaces has done nothing else:
\* no discovery call, no resource fetch, no output directory, no file, no
\* summary and no archive.
C16_NoValidNamespacesFirst ==
    error = "NoValidNamespaces" =>
        /\ pc = "failed"
        /\ discoveryCalls = 0
        /\ listCalls = {}
        /\ fetched = <<>>
        /\ dirs = {}
        /\ files = EmptyMap
        /\ ~summary.written
        /\ ~archive.created

\* the run has ended on a request none of whose namespaces exists
C16_Witness ==
    /\ pc = "failed"
    /\ error = "NoValidNamespaces"
    /\ namespaces = <<>>

\* C17: a failed discovery is fatal: the run has ended in failure, no fetch
\* can follow it, and neither the summary nor the archive is produced.
C17_DiscoveryErrorFatal ==
    error = "DiscoveryError" =>
        /\ pc = "failed"
        /\ ~ENABLED (CollectClusterStep \/ CollectNamespaceStep)
        /\ ~ENABLED Next
        /\ ~summary.written
        /\ ~archive.created

\* the discovery of a namespace pass has failed after the cluster partition
\* was fetched and written
C17_Witness ==
    /\ pc = "failed"
    /\ error = "DiscoveryError"
    /\ discoveryCalls >= 2
    /\ listCalls # {}
    /\ DOMAIN files # {}

\* main has returned on the failed write of an instance
SaveFailed ==
    /\ pc = "failed"
    /\ error = "WriteError"
    /\ nsIdx <= Len(namespaces)

\* the files written for the instances of kind k of the partition being saved
FilesOf(k) ==
    { p \in DOMAIN files :
        /\ p.dir[2] = to_lowercase(k)
        /\ p.dir[1] = (IF nsIdx = 0 THEN "cluster" ELSE namespaces[nsIdx]) }

\* C18: an encode or write error on one instance does not abort the rest of
\* the persistence: every kind of the partition is still written and
\* counted, the namespaces after it are still saved, and the run still
\* produces its summary.
C18_WriteErrorIsolated ==
    SaveFailed =>
        /\ \A k \in DOMAIN resources :
              (\E i \in 1..Len(resources[k]) : has_name(resources[k][i]))
                  => (k \in DOMAIN stats \/ FilesOf(k) # {})
        /\ Len(namespace_stats) >= Len(namespaces) - 1
        /\ summary.written

\* the save of the cluster partition has just returned: the result map is
\* still the cluster pass's
ClusterSaved == pc = "ns_discover" /\ nsIdx = 1

\* the save of a namespace has just returned: the result map is still that
\* namespace's, the last entry of namespace_stats
NamespaceSaved ==
    /\ pc \in { "ns_discover", "summary", "compress", "done" }
    /\ nsIdx > 1

\* the stats maps the summary reports are the ones the saves returned
SummaryReportsStats ==
    summary.written =>
        /\ summary.content.cluster_resources.resource_types = cluster_stats
        /\ \A n \in 1..Len(namespace_stats) :
              summary.content.namespace_details[namespace_stats[n][1]]
                  .resource_types = namespace_stats[n][2]

\* C19: for every kind of the cluster partition and of each namespace, the
\* count the summary reports equals the number of instances the Collection
\* Result holds for that kind.
C19_CountsEqualInstances ==
    /\ SummaryReportsStats
    /\ ClusterSaved =>
          /\ DOMAIN cluster_stats = DOMAIN resources
          /\ \A k \in DOMAIN resources : cluster_stats[k] = Len(resources[k])
    /\ NamespaceSaved =>
          LET counts == namespace_stats[nsIdx - 1][2]
          IN  /\ DOMAIN counts = DOMAIN resources
              /\ \A k \in DOMAIN resources : counts[k] = Len(resources[k])

\* the count of kind k in the stats map m, 0 when m has no entry for it
CountOf(m, k) == IF k \in DOMAIN m THEN m[k] ELSE 0

\* the counts of m added up, kind by kind
TotalOf(m) == CountOf(m, "Namespace") + CountOf(m, "Pod") + CountOf(m, "Event")

\* the stats map of the n-th saved namespace, empty past the last one
StatsAt(n) ==
    IF n <= Len(namespace_stats) THEN namespace_stats[n][2] ELSE EmptyMap

\* C20: the summary's totals are consistent with the stats it was given:
\* total_cluster_resources is the sum of the cluster counts, each namespace's
\* total_resources is the sum of its counts, total_namespaced_resources is the
\* sum over all namespace counts, total_resources is the sum of the two, and
\* resource_type_counts[k] is the cluster count of k plus k's counts over the
\* namespaces, so that its values add up to total_resources.
C20_SummaryTotals ==
    summary.written =>
        LET c == summary.content
            t == c.cluster_summary
        IN  /\ Len(namespace_stats) <= 2
            /\ t.total_cluster_resources = TotalOf(cluster_stats)
            /\ c.cluster_resources.total_resources = TotalOf(cluster_stats)
            /\ DOMAIN c.namespace_details =
                  { namespace_stats[n][1] : n \in 1..Len(namespace_stats) }
            /\ \A ns \in DOMAIN c.namespace_details :
                  /\ c.namespace_details[ns].total_resources =
                        TotalOf(c.namespace_details[ns].resource_types)
                  /\ \E n \in 1..Len(namespace_stats) :
                        namespace_stats[n] =
                            << ns, c.namespace_details[ns].resource_types >>
            /\ t.total_namespaced_resources =
                  TotalOf(StatsAt(1)) + TotalOf(StatsAt(2))
            /\ t.total_resources =
                  t.total_cluster_resources + t.total_namespaced_resources
            /\ DOMAIN t.resource_type_counts =
                  (DOMAIN cluster_stats) \cup (DOMAIN StatsAt(1))
                  \cup (DOMAIN StatsAt(2))
            /\ \A k \in DOMAIN t.resource_type_counts :
                  t.resource_type_counts[k] =
                      CountOf(cluster_stats, k) + CountOf(StatsAt(1), k)
                      + CountOf(StatsAt(2), k)
            /\ TotalOf(t.resource_type_counts) = t.total_resources

\* a summary over two namespaces where one kind is counted in the cluster
\* partition and in both namespaces
C20_Witness ==
    /\ summary.written
    /\ Len(namespace_stats) = 2
    /\ namespace_stats[1][1] # namespace_stats[2][1]
    /\ CountOf(cluster_stats, "Event") = 1
    /\ CountOf(cluster_stats, "Namespace") = 2
    /\ CountOf(StatsAt(1), "Event") = 2
    /\ CountOf(StatsAt(2), "Event") = 1
    /\ CountOf(StatsAt(2), "Pod") = 2
    /\ summary.content.cluster_summary.resource_type_counts["Event"] = 4
    /\ summary.content.cluster_summary.total_resources = 8

\* C21: the statistics are a pure function of their inputs: two computations
\* from the same manager, stats and options give the same summary, whatever
\* time has passed between them, and a computation changes none of its inputs.
C21_SummaryIsPure ==
    /\ [](\A i, j \in 1..Len(summaries) : summaries[i] = summaries[j])
    /\ [][UNCHANGED << output_manager, cluster_stats, namespace_stats, opts >>]_vars

\* the summary has been computed twice, the second time later than the first
C21_Witness ==
    /\ Len(summaries) = 2
    /\ clock > output_manager.timestamp
    /\ summary.content = summaries[1]
    /\ summaries[2].cluster_summary.total_resources > 0

\* the partition whose save has just returned
SavedPartition == IF ClusterSaved THEN "cluster" ELSE namespaces[nsIdx - 1]

\* the files of encoding ext written for kind k of that partition
WrittenFor(k, ext) ==
    { p \in DOMAIN files :
        p.dir = << SavedPartition, to_lowercase(k) >> /\ p.ext = ext }

\* the positions of the named instances the result holds for kind k
Named(k) ==
    { i \in 1..Len(resources[k]) :
        /\ "metadata" \in DOMAIN resources[k][i].fields
        /\ "name" \in DOMAIN resources[k][i].fields["metadata"].fields }

\* C22: when the save of a partition has returned, every kind of the result
\* has, for each encoding of the format (json, yaml, or both), one file per
\* named instance, named by the instance and holding it, and none in another
\* encoding; an instance without a name has no file and stops nothing.
C22_OneFilePerNamedInstance ==
    (ClusterSaved \/ NamespaceSaved) =>
        \A k \in DOMAIN resources :
            \A ext \in { "json", "yaml" } :
                IF format = ext \/ format = "both"
                THEN /\ Cardinality(WrittenFor(k, ext)) = Cardinality(Named(k))
                     /\ \A i \in Named(k) :
                           \E p \in WrittenFor(k, ext) :
                               /\ Str(p.file) =
                                     resources[k][i].fields["metadata"].fields["name"]
                               /\ files[p] = [encoding |-> ext,
                                               doc |-> resources[k][i]]
                ELSE WrittenFor(k, ext) = {}

\* a save in both encodings has returned for a kind that holds two named
\* instances and one without a name
C22_Witness ==
    /\ NamespaceSaved
    /\ format = "both"
    /\ \E k \in DOMAIN resources :
          /\ Cardinality(Named(k)) = 2
          /\ Len(resources[k]) = 3
          /\ Cardinality(WrittenFor(k, "json")) = 2
          /\ Cardinality(WrittenFor(k, "yaml")) = 2

\* every descriptor the platform can serve
AllDescriptors == Range(BaseCatalog) \cup { InstalledCrd }

\* the descriptor a list call was issued for
DescriptorOf(c) ==
    CHOOSE ar \in AllDescriptors :
        ar.kind = c.kind /\ ar.api_version = c.api_version

ListCall(ar, namespace) ==
    [kind |-> ar.kind, api_version |-> ar.api_version, namespace |-> namespace]

\* C23: each descriptor is handled by exactly one phase: a list call without
\* a namespace is for a Cluster descriptor and a list call in a namespace is
\* for a Namespaced one, in a namespace main has reached; a pass fetches only
\* descriptors of its own scope; and when both phases are over every included
\* Cluster descriptor has been fetched without a namespace and every included
\* Namespaced one in each namespace.
C23_OnePhasePerDescriptor ==
    /\ \A c \in listCalls :
          /\ DescriptorOf(c).scope = (IF c.namespace.some THEN "Namespaced"
                                      ELSE "Cluster")
          /\ c.namespace.some =>
                \E n \in 1..Len(namespaces) :
                    n <= nsIdx /\ namespaces[n] = c.namespace.val
    /\ InPass => \A i \in 1..Len(fetched) : fetched[i].ar.scope = PassScope
    /\ pc \in { "summary", "compress", "done" } =>
          \A i \in 1..Len(BaseCatalog) :
              should_collect_resource(BaseCatalog[i].kind, opts) =>
                  IF BaseCatalog[i].scope = "Cluster"
                  THEN ListCall(BaseCatalog[i], NoNamespace) \in listCalls
                  ELSE \A n \in 1..Len(namespaces) :
                          ListCall(BaseCatalog[i], InNamespace(namespaces[n]))
                              \in listCalls

\* both phases are over and the run has fetched a Cluster kind without a
\* namespace and a Namespaced kind once in each of two namespaces
C23_Witness ==
    /\ pc = "summary"
    /\ Len(namespaces) = 2
    /\ \E c \in listCalls : c.kind = "Namespace" /\ ~c.namespace.some
    /\ \A n \in 1..2 :
          \E c \in listCalls :
              c.kind = "Pod" /\ c.namespace = InNamespace(namespaces[n])
    /\ Cardinality({ c \in listCalls : c.kind = "Pod" }) = 2
    /\ Cardinality({ c \in listCalls : c.kind = "Namespace" }) = 1

\* what tells one instance of a list from another: its name, or its having
\* none
Identity(d) ==
    IF "name" \in DOMAIN d.fields["metadata"].fields
    THEN << "named", d.fields["metadata"].fields["name"].val >>
    ELSE << "unnamed" >>

Identities(items) == [i \in 1..Len(items) |-> Identity(items[i])]

\* C24: the sequence recorded for a kind lists the fetched instances in the
\* order the platform returned them: element i of the result is element i
\* of the list answer, none dropped, repeated or moved.
C24_OrderStable ==
    InPass =>
        \A k \in DOMAIN resources :
            LET answer == fetched[LastAnswer(k)].response.val
            IN  /\ Identities(resources[k]) = Identities(answer)
                /\ \A i \in 1..Len(answer) :
                      resources[k][i] \in
                          { answer[i], sanitize_resource(answer[i]) }

\* a pass has recorded a, an instance without a name, and c in that order
C24_Witness ==
    /\ InPass
    /\ \E k \in DOMAIN resources :
          Identities(resources[k]) =
              << << "named", "a" >>, << "unnamed" >>, << "named", "c" >> >>

\* C25: no fetch blocks indefinitely: whatever the platform does with a list
\* request, the run comes to its end, completed or failed.
C25_RunEnds == <>(pc \in { "done", "failed" })

\* the descriptors in the order the platform lists them
ListedOrder ==
    << Descriptor("Pod", "v1", "Namespaced"),
       Descriptor("Event", "v1", "Namespaced"),
       Descriptor("Event", "events.k8s.io/v1", "Namespaced") >>

\* the result map of a pass that went through the first n descriptors of cat
RECURSIVE PassResult(_, _)
PassResult(cat, n) ==
    IF n = 0
    THEN EmptyMap
    ELSE IF should_collect_resource(cat[n].kind, opts)
    THEN record_result(PassResult(cat, n - 1), cat[n].kind,
                       collect_dynamic_resource(answers[cat[n]], opts))
    ELSE PassResult(cat, n - 1)

\* C26: for fixed options and fixed answers of the platform the result map of
\* a pass is the same in whatever order the descriptors of the catalog are
\* processed: it is the map the listed order gives.
C26_OrderIndependent ==
    pc = "ns_collected" => resources = PassResult(ListedOrder, Len(ListedOrder))

\* handle_compression has been called
Compressed == archive.mode # "none"

\* C27: handle_compression builds the archive exactly when asked to: for
\* "compressed" and "both" it returns Ok with the archive created, or the
\* error of the creation; for "uncompressed" it returns Ok and creates
\* nothing; for any other selector it returns an error and creates nothing.
\* In a run it is called only after every partition is saved and the summary
\* is written.
C27_ArchiveWhenRequested ==
    /\ Compressed =>
          /\ pc \in { "done", "returned", "failed" }
          /\ archive.mode \in { "compressed", "both" } =>
                (archive.created <=> pc # "failed")
          /\ archive.mode = "uncompressed" =>
                ~archive.created /\ pc # "failed"
          /\ archive.mode \notin Compressions =>
                ~archive.created /\ pc = "failed" /\ error = "ArchiveError"
    /\ ~Compressed => ~archive.created
    /\ (Compressed /\ pc # "returned" /\ namespaces # <<>>) =>
          /\ summary.written
          /\ nsIdx = Len(namespaces) + 1
          /\ Len(namespace_stats) = Len(namespaces)
          /\ archive.mode \in Compressions

\* a run over two namespaces has ended with the archive built for "both"
C27_Witness ==
    /\ pc = "done"
    /\ archive = [mode |-> "both", created |-> TRUE]
    /\ Len(namespace_stats) = 2
    /\ DOMAIN files # {}
    /\ summary.written

\* the instances a list answer contributes, as the pass stores them
Collected(response) == Range(collect_dynamic_resource(response, opts).val)

\* C28: after a pass completes, for every kind name the result map's sequence
\* for it contains every instance returned by the successful fetch of every
\* included descriptor of that kind, also when two descriptors of the catalog
\* have the same kind name in different API groups.
C28_NoInstanceLost ==
    pc \in { "cluster_collected", "ns_collected" } =>
        \A i \in 1..Len(fetched) :
            (fetched[i].response.ok /\ fetched[i].response.val # <<>>) =>
                /\ fetched[i].ar.kind \in DOMAIN resources
                /\ Collected(fetched[i].response)
                       \subseteq Range(resources[fetched[i].ar.kind])

\* C29: the summary agrees with itself for every verified namespace list, one
\* that names a namespace more than once included: total_namespaces is the
\* number of entries of namespace_details, and total_namespaced_resources is
\* the sum of total_resources over the entries of namespace_details.
C29_SummaryAgreesWithItself ==
    summary.written =>
        LET c == summary.content
            t == c.cluster_summary
            total(ns) == IF ns \in DOMAIN c.namespace_details
                         THEN c.namespace_details[ns].total_resources ELSE 0
        IN  /\ t.total_namespaces = Cardinality(DOMAIN c.namespace_details)
            /\ t.total_namespaced_resources = total("default") + total("ns-a")

\* C30: the cluster partition and the namespace partitions share no location,
\* for a namespace named "cluster" as for any other: when the save of a
\* namespace is about to begin, no directory and no file of the output tree
\* lies in that namespace's partition, so nothing Phase A wrote can be
\* overwritten by it.
C30_PartitionsApart ==
    pc = "ns_collected" =>
        /\ \A d \in dirs : d # <<>> => d[1] # namespaces[nsIdx]
        /\ \A p \in DOMAIN files : p.dir[1] # namespaces[nsIdx]

====
